---- MODULE Spec2Model ----
(***************************************************************************)
(* SST (Single-Stream Temporal action proposals): the training script      *)
(* src/code/train.py and the Lasagne model src/lasagne/code/sst/model.py.  *)
(*                                                                         *)
(* Real numbers are modelled exactly: a probability, threshold or tIoU     *)
(* value is an integer number of tenths (0.5 is 5, 1.0 is One), a class    *)
(* weight is the pair <<numerator, denominator>>.                          *)
(***************************************************************************)
EXTENDS Integers, Sequences, FiniteSets, TLC

VARIABLES
    \* ---- iterate_minibatches (train.py 71-81), one generator run
    inputs, targets, batchsize, shuffle, indices, range_pos, yielded, gpc,
    \* ---- one SSTSequenceEncoder object (model.py)
    epc,            \* "new" | "ok" | "ValueError": how __init__ ended
    mode, num_proposals, dropout, input_size, w0, w1,
    network,        \* self._network: what _build_network chained
    net_params,     \* the parameter values of self._network
    train_fn, test_fn,
    param_file,     \* the file save_model_params writes
    fn_runs,        \* compiled functions executed so far
    last,           \* the last call made on the object and how it ended
    \* ---- main(): the label arrays and the class weights (train.py 114-159)
    lpc,            \* the statement main() is at
    y_train, y_val, \* arrays indexed [sample][timestep][anchor]
    y_train_raw, y_val_raw,   \* the values as loaded, kept for the record
    tIoU, seq_length,         \* args.tIoU (tenths), args.seq_length
    main_w0, main_w1,         \* main()'s w0 and w1: one weight per anchor
    criterion,      \* the arguments WeightedCrossEntropy was built with
    \* ---- main(): checkpoint loading and the training loop (train.py 160-237)
    tpc,            \* the statement main() is at, or the exception that ended it
    n_train, batch_size, num_epochs,   \* len(X_train), args.batch_size, args.num_epochs
    checkpoint_arg, \* args.checkpoint is a non-empty path
    ckpt_file,      \* the checkpoint stored at args.checkpoint, if any
    start_epoch,    \* args.start_epoch
    i,              \* the epoch the loop is in
    batch_no,       \* batches the running pass has drawn from its generator
    train_batches, val_batches,
    state_dict, opt_state,   \* model.state_dict(), optimizer.state_dict()
    training,       \* model.training, as model.train(flag) sets it
    grad,           \* the gradients held by the parameters
    hidden,         \* model.hidden
    last_op,        \* the last call made on the model or the optimizer
    dir_exists, saved,       \* ckpt_dir exists; epochs whose checkpoint is on disk
    epochs_run      \* the epochs whose losses were reported, in order

batchVars == <<inputs, targets, batchsize, shuffle, indices, range_pos, yielded, gpc>>
encVars == <<epc, mode, num_proposals, dropout, input_size, w0, w1, network,
             net_params, train_fn, test_fn, param_file, fn_runs, last>>

labelVars == <<lpc, y_train, y_val, y_train_raw, y_val_raw, tIoU, seq_length,
               main_w0, main_w1, criterion>>

trainVars == <<tpc, n_train, batch_size, num_epochs, checkpoint_arg, ckpt_file,
               start_epoch, i, batch_no, train_batches, val_batches, state_dict,
               opt_state, training, grad, hidden, last_op, dir_exists, saved,
               epochs_run>>

vars == <<batchVars, encVars, labelVars, trainVars>>

\* a step of one part of the program leaves the other parts alone
OnlyBatch == UNCHANGED <<encVars, labelVars, trainVars>>
OnlyEnc == UNCHANGED <<batchVars, labelVars, trainVars>>
OnlyLabels == UNCHANGED <<batchVars, encVars, trainVars>>
OnlyTrain == UNCHANGED <<batchVars, encVars, labelVars>>

(***************************************************************************)
(* Bounds of the model                                                     *)
(***************************************************************************)
MaxN == 4          \* samples handed to one generator run
MaxB == 3          \* batch sizes tried
MaxFnRuns == 4     \* compiled-function executions followed on one encoder
MaxPretrained == 2 \* distinct pre-trained parameter sets
MaxEntries == 3    \* timesteps of the raw label arrays that are binarized
MaxSamples == 2    \* samples of the binarized training set the weights are taken of
MaxSteps == 2      \* timesteps of those samples
MaxCells == 8      \* entries (samples x timesteps x anchors) of that training set
MaxTrain == 4      \* training samples of a run of the loop
MaxEpochs == 2     \* args.num_epochs tried

(***************************************************************************)
(* Program constants                                                       *)
(***************************************************************************)
One == 10                   \* 1.0 in tenths
DefaultInputSize == 500     \* input_size=500
CheckpointEvery == 10       \* if i % 10 == 0
\* Python's None, and a value held where None may be held instead
None == <<>>
Some(v) == <<v>>
The(o) == o[1]

(***************************************************************************)
(* Python / numpy helpers                                                  *)
(***************************************************************************)
Min(a, b) == IF a <= b THEN a ELSE b
Max(a, b) == IF a >= b THEN a ELSE b

\* range(start, stop, step) for step > 0, as the sequence of its values
RECURSIVE PyRange(_, _, _)
PyRange(start, stop, step) ==
    IF start >= stop THEN <<>>
    ELSE <<start>> \o PyRange(start + step, stop, step)

\* a[lo:hi] of a 0-indexed array held as a sequence (a slice is cut at the end)
PySlice(a, lo, hi) == SubSeq(a, Max(lo, 0) + 1, Min(hi, Len(a)))

\* a[idx] for an array idx of 0-based indices (numpy integer-array indexing)
PyTake(a, idx) == [j \in 1..Len(idx) |-> a[idx[j] + 1]]

\* np.arange(n)
Arange(n) == [j \in 1..n |-> j - 1]

\* every order np.random.shuffle can leave np.arange(n) in
Permutations0(n) ==
    {p \in [1..n -> 0..(n - 1)] : \A a, b \in 1..n : a # b => p[a] # p[b]}

(***************************************************************************)
(* iterate_minibatches(inputs, targets, batchsize, shuffle)                *)
(***************************************************************************)
\* a stop that lets a last, short batch through
RangeStopShort(n, b) == n
\* the stop of the range the generator walks (train.py 76)
RangeStop(n, b) == n - b + 1

StartIndices(n, b) == PyRange(0, RangeStop(n, b), b)

\* one batch: inputs[excerpt], targets[excerpt]  (train.py 77-81)
Excerpt(arr, start_idx) ==
    IF shuffle THEN PyTake(arr, PySlice(indices, start_idx, start_idx + batchsize))
    ELSE PySlice(arr, start_idx, start_idx + batchsize)

BatchIdle ==
    /\ inputs = <<>> /\ targets = <<>> /\ batchsize = 1 /\ shuffle = FALSE
    /\ indices = <<>> /\ range_pos = 0 /\ yielded = <<>> /\ gpc = "idle"

BatchStart ==
    /\ \E n \in 0..MaxN, m \in 0..MaxN :
          /\ m \in {n, n + 1}
          /\ inputs = [j \in 1..n |-> [x |-> j - 1]]
          /\ targets = [j \in 1..m |-> [y |-> j - 1]]
    /\ batchsize \in 1..MaxB
    /\ shuffle \in BOOLEAN
    /\ indices = <<>>
    /\ range_pos = 0
    /\ yielded = <<>>
    /\ gpc = "start"

\* first next(): the assertion fails (train.py 72)
GenAssertFails ==
    /\ gpc = "start"
    /\ Len(inputs) # Len(targets)
    /\ gpc' = "AssertionError"
    /\ UNCHANGED <<inputs, targets, batchsize, shuffle, indices, range_pos, yielded>>
    /\ OnlyBatch

\* first next(): the assertion holds, the order is drawn (train.py 72-75)
GenBegin ==
    /\ gpc = "start"
    /\ Len(inputs) = Len(targets)
    /\ IF shuffle
       THEN indices' \in Permutations0(Len(inputs))
       ELSE indices' = indices
    /\ gpc' = "loop"
    /\ UNCHANGED <<inputs, targets, batchsize, shuffle, range_pos, yielded>>
    /\ OnlyBatch

\* one turn of the for loop: the next start_idx, one batch yielded (train.py 76-81)
GenYield ==
    /\ gpc = "loop"
    /\ range_pos < Len(StartIndices(Len(inputs), batchsize))
    /\ LET start_idx == StartIndices(Len(inputs), batchsize)[range_pos + 1]
       IN  yielded' = Append(yielded, [start |-> start_idx,
                                       X |-> Excerpt(inputs, start_idx),
                                       Y |-> Excerpt(targets, start_idx)])
    /\ range_pos' = range_pos + 1
    /\ UNCHANGED <<inputs, targets, batchsize, shuffle, indices, gpc>>
    /\ OnlyBatch

\* the range is exhausted: the generator returns (train.py 76)
GenFinish ==
    /\ gpc = "loop"
    /\ range_pos >= Len(StartIndices(Len(inputs), batchsize))
    /\ gpc' = "done"
    /\ UNCHANGED <<inputs, targets, batchsize, shuffle, indices, range_pos, yielded>>
    /\ OnlyBatch

(***************************************************************************)
(* SSTSequenceEncoder (model.py)                                           *)
(***************************************************************************)
NumProposalsValues == {-1, 0, 1, 16}
DropoutValues == {-1, 0, 5, 10, 11}          \* tenths
WeightValues == {None, Some(2), Some(8)}     \* tenths; None is the default
ModeValues == {"train", "test", "predict"}
InputSizes == {DefaultInputSize, 4096}
InputRanks == {2, 3, 4}

FreshParams == [base |-> 0, steps |-> 0]      \* the initializers' draw
PretrainedParams == {[base |-> b, steps |-> 0] : b \in 1..MaxPretrained}

\* callable(f)
Callable(f) == f # None

\* _build_network: one DropoutLayer after each GRU layer iff dropout > 0
BuildNetwork(p, k) == [dropout_layers |-> p > 0, p |-> p, num_units |-> k]

\* lasagne.layers.get_output(network, deterministic=d): dropout is applied
\* iff the network holds dropout layers and d is False
Stochastic(net, deterministic) == net.dropout_layers /\ ~deterministic

\* __init__: which error the argument checks raise, if any (model.py 57-66)
InitError(k, p) ==
    IF k < 0 THEN "ValueError"
    ELSE IF p < 0 \/ p > One THEN "ValueError"
    ELSE "ok"

EncIdle ==
    /\ epc = "new" /\ mode = "None" /\ num_proposals = None /\ dropout = None
    /\ input_size = None /\ w0 = None /\ w1 = None /\ network = None
    /\ net_params = None /\ train_fn = None /\ test_fn = None
    /\ param_file = None /\ fn_runs = 0 /\ last = [op |-> "none"]

\* SSTSequenceEncoder(num_proposals=k, dropout=p, mode=m, w0=a, w1=b, input_size=d)
Construct ==
    /\ epc = "new"
    /\ \E k \in NumProposalsValues, p \in DropoutValues, m \in ModeValues,
          a \in WeightValues, b \in WeightValues, d \in InputSizes :
          /\ mode' = m /\ w0' = a /\ w1' = b
          /\ num_proposals' = k /\ dropout' = p /\ input_size' = d
          /\ epc' = InitError(k, p)
          /\ IF InitError(k, p) = "ok"
             THEN /\ network' = BuildNetwork(p, k)
                  /\ net_params' = FreshParams
             ELSE UNCHANGED <<network, net_params>>
          /\ last' = [op |-> "__init__", outcome |-> InitError(k, p)]
    /\ UNCHANGED <<train_fn, test_fn, param_file, fn_runs>>
    /\ OnlyEnc

\* initialize_pretrained(model_params) (model.py 108-115)
InitializePretrained ==
    /\ epc = "ok"
    /\ \E v \in PretrainedParams :
          net_params' = IF ~Callable(test_fn) THEN v ELSE net_params
    /\ last' = [op |-> "initialize_pretrained", outcome |-> "ok"]
    /\ UNCHANGED <<epc, mode, num_proposals, dropout, input_size, w0, w1, network,
                   train_fn, test_fn, param_file, fn_runs>>
    /\ OnlyEnc

\* the per-element loss expression of model.py 123-128 and 138-141 for a binary
\* target y, as the coefficients of log(p) and log(1 - p) inside -( ... ), in tenths
LossTerms(a, b) ==
    [logp   |-> [y \in {0, 1} |-> The(b) * y],              \* term1 = w1 * y
     log1mp |-> [y \in {0, 1} |-> One - The(a) * (1 - y)],  \* 1.0 - term2
     reduce |-> "mean"]

\* what compile() builds in mode 'train' (model.py 122-142)
TrainFn == [out |-> "loss", loss |-> LossTerms(w0, w1), updates |-> TRUE,
            stochastic |-> Stochastic(network, FALSE)]      \* train_prediction
TrainModeTestFn == [out |-> "loss", loss |-> LossTerms(w0, w1), updates |-> FALSE,
                    stochastic |-> Stochastic(network, FALSE)]  \* train_prediction again
\* what compile() builds in mode 'test' (model.py 144-146)
TestModeTestFn == [out |-> "prediction", updates |-> FALSE,
                   stochastic |-> Stochastic(network, TRUE)]

\* compile() (model.py 117-150)
Compile ==
    /\ epc = "ok"
    /\ IF Callable(test_fn)
       THEN /\ last' = [op |-> "compile", outcome |-> "skipped"]
            /\ UNCHANGED <<train_fn, test_fn>>
       ELSE IF mode = "train"
       THEN IF w0 = None \/ w1 = None
            THEN /\ last' = [op |-> "compile", outcome |-> "TypeError"]
                 /\ UNCHANGED <<train_fn, test_fn>>
            ELSE /\ train_fn' = Some(TrainFn)
                 /\ test_fn' = Some(TrainModeTestFn)
                 /\ last' = [op |-> "compile", outcome |-> "ok"]
       ELSE IF mode = "test"
       THEN /\ test_fn' = Some(TestModeTestFn)
            /\ last' = [op |-> "compile", outcome |-> "ok"]
            /\ UNCHANGED train_fn
       ELSE /\ last' = [op |-> "compile", outcome |-> "UnboundLocalError"]
            /\ UNCHANGED <<train_fn, test_fn>>
    /\ UNCHANGED <<epc, mode, num_proposals, dropout, input_size, w0, w1, network,
                   net_params, param_file, fn_runs>>
    /\ OnlyEnc

\* the checks without the one on the last dimension
ForwardEvalRaisesNoDimCheck(ndim, lastdim) ==
    ~Callable(test_fn) \/ ndim # 3
\* the checks forward_eval makes before any function runs (model.py 176-181)
ForwardEvalRaises(ndim, lastdim) ==
    \/ ~Callable(test_fn)
    \/ ndim # 3
    \/ lastdim # input_size

\* one executed train_fn: the nesterov-momentum updates change the parameters
Updated(v) == [v EXCEPT !.steps = @ + 1]

\* forward_eval(input_data, input_labels) with input_data of rank ndim and, when
\* it has a third axis, of size lastdim there (model.py 152-188)
ForwardEval ==
    /\ epc = "ok"
    /\ fn_runs + 2 <= MaxFnRuns
    /\ \E ndim \in InputRanks, lastdim \in {input_size, input_size + 1} :
          IF ForwardEvalRaises(ndim, lastdim)
          THEN /\ last' = [op |-> "forward_eval", ndim |-> ndim, lastdim |-> lastdim,
                           outcome |-> "ValueError"]
               /\ UNCHANGED <<net_params, fn_runs>>
          ELSE /\ last' = [op |-> "forward_eval", ndim |-> ndim, lastdim |-> lastdim,
                           outcome |-> "ok"]
               /\ IF mode = "train"
                  THEN /\ net_params' = Updated(net_params)   \* train_fn, then test_fn
                       /\ fn_runs' = fn_runs + 2
                  ELSE /\ net_params' = net_params            \* test_fn
                       /\ fn_runs' = fn_runs + 1
    /\ UNCHANGED <<epc, mode, num_proposals, dropout, input_size, w0, w1, network,
                   train_fn, test_fn, param_file>>
    /\ OnlyEnc

\* save_model_params(filename) (model.py 197-202)
SaveModelParams ==
    /\ epc = "ok"
    /\ param_file' = Some(net_params)
    /\ last' = [op |-> "save_model_params", outcome |-> "ok"]
    /\ UNCHANGED <<epc, mode, num_proposals, dropout, input_size, w0, w1, network,
                   net_params, train_fn, test_fn, fn_runs>>
    /\ OnlyEnc

\* load_model_params(filename) of a file save_model_params wrote (model.py 190-195)
LoadModelParams ==
    /\ epc = "ok"
    /\ param_file # None
    /\ net_params' = The(param_file)
    /\ last' = [op |-> "load_model_params", outcome |-> "ok"]
    /\ UNCHANGED <<epc, mode, num_proposals, dropout, input_size, w0, w1, network,
                   train_fn, test_fn, param_file, fn_runs>>
    /\ OnlyEnc

(***************************************************************************)
(* main(): binarization of the labels (train.py 117-119, 146-148)          *)
(***************************************************************************)
RawValues == {3, 5, 7, 12}       \* tIoU values as stored in the files, tenths
Thresholds == {5, 12}            \* args.tIoU, tenths
ValSteps == {1, 2}               \* timesteps of the validation array
AnchorCounts == {1, 2}

\* arrays of shape (n, t, k) with entries in S
Arrays(n, t, k, S) == [1..n -> [1..t -> [1..k -> S]]]

\* the first assignment with the boundary excluded
SetOnesStrict(y) ==
    [n \in DOMAIN y |-> [t \in DOMAIN y[n] |-> [k \in DOMAIN y[n][t] |->
        IF y[n][t][k] > tIoU THEN One ELSE y[n][t][k]]]]
\* y[y >= args.tIoU] = 1   (train.py 117, 146)
SetOnes(y) ==
    [n \in DOMAIN y |-> [t \in DOMAIN y[n] |-> [k \in DOMAIN y[n][t] |->
        IF y[n][t][k] >= tIoU THEN One ELSE y[n][t][k]]]]

\* y[y < args.tIoU] = 0    (train.py 118, 147)
SetZeros(y) ==
    [n \in DOMAIN y |-> [t \in DOMAIN y[n] |-> [k \in DOMAIN y[n][t] |->
        IF y[n][t][k] < tIoU THEN 0 ELSE y[n][t][k]]]]

LabelIdle ==
    /\ lpc = "idle" /\ y_train = <<>> /\ y_val = <<>>
    /\ y_train_raw = <<>> /\ y_val_raw = <<>> /\ tIoU = 0 /\ seq_length = 0
    /\ main_w0 = <<>> /\ main_w1 = <<>> /\ criterion = <<>>

\* the arrays as read from the files (train.py 114-115, 143-144)
LabelsLoaded ==
    /\ lpc = "117"
    /\ \E t \in 1..MaxEntries : y_train \in Arrays(1, t, 1, RawValues)
    /\ \E t \in ValSteps : y_val \in Arrays(1, t, 1, RawValues)
    /\ y_train_raw = y_train /\ y_val_raw = y_val
    /\ tIoU \in Thresholds
    /\ seq_length = Len(y_train[1])
    /\ main_w0 = <<>> /\ main_w1 = <<>> /\ criterion = <<>>

TrainSetOnes ==                                   \* train.py 117
    /\ lpc = "117"
    /\ y_train' = SetOnes(y_train)
    /\ lpc' = "118"
    /\ UNCHANGED <<y_val, y_train_raw, y_val_raw, tIoU, seq_length,
                   main_w0, main_w1, criterion>>
    /\ OnlyLabels

TrainSetZeros ==                                  \* train.py 118-119
    /\ lpc = "118"
    /\ y_train' = SetZeros(y_train)
    /\ lpc' = "146"
    /\ UNCHANGED <<y_val, y_train_raw, y_val_raw, tIoU, seq_length,
                   main_w0, main_w1, criterion>>
    /\ OnlyLabels

ValSetOnes ==                                     \* train.py 146
    /\ lpc = "146"
    /\ y_val' = SetOnes(y_val)
    /\ lpc' = "147"
    /\ UNCHANGED <<y_train, y_train_raw, y_val_raw, tIoU, seq_length,
                   main_w0, main_w1, criterion>>
    /\ OnlyLabels

ValSetZeros ==                                    \* train.py 147-148
    /\ lpc = "147"
    /\ y_val' = SetZeros(y_val)
    /\ lpc' = "binarized"
    /\ UNCHANGED <<y_train, y_train_raw, y_val_raw, tIoU, seq_length,
                   main_w0, main_w1, criterion>>
    /\ OnlyLabels

(***************************************************************************)
(* main(): the class weights and the loss (train.py 121-122, 158-159)      *)
(***************************************************************************)
RECURSIVE SumTo(_, _)
SumTo(f, n) == IF n = 0 THEN 0 ELSE f[n] + SumTo(f, n - 1)

\* (y == v).sum(1): per sample and anchor, the timesteps whose label is v
CountAxis1(y, v) ==
    [n \in DOMAIN y |-> [k \in DOMAIN y[n][1] |->
        SumTo([t \in DOMAIN y[n] |-> IF y[n][t][k] = v THEN 1 ELSE 0], Len(y[n]))]]

\* np.mean(counts.astype(np.float64) / args.seq_length, axis=0): per anchor, the
\* mean over the samples of count / seq_length, as <<numerator, denominator>>
MeanFraction(counts) ==
    [k \in DOMAIN counts[1] |->
        <<SumTo([n \in DOMAIN counts |-> counts[n][k]], Len(counts)),
          seq_length * Len(counts)>>]

\* the count of line 121 taken of the other label
W0CountsOfZeros(y) == CountAxis1(y, 0)
\* (y_train == 1).sum(1)   (train.py 121)
W0Counts(y) == CountAxis1(y, One)
\* (y_train == 0).sum(1)   (train.py 122)
W1Counts(y) == CountAxis1(y, 0)

\* the binarized training set, as lines 117-119 leave it
WeightsStart ==
    /\ lpc = "121"
    /\ \E n \in 1..MaxSamples, t \in 1..MaxSteps, k \in AnchorCounts :
          /\ n * t * k <= MaxCells
          /\ y_train \in Arrays(n, t, k, {0, One})
    /\ seq_length \in {Len(y_train[1]), Len(y_train[1]) + 1}
    /\ y_val = <<>> /\ y_train_raw = <<>> /\ y_val_raw = <<>> /\ tIoU = 0
    /\ main_w0 = <<>> /\ main_w1 = <<>> /\ criterion = <<>>

ComputeW0 ==                                      \* train.py 121
    /\ lpc = "121"
    /\ main_w0' = MeanFraction(W0Counts(y_train))
    /\ lpc' = "122"
    /\ UNCHANGED <<y_train, y_val, y_train_raw, y_val_raw, tIoU, seq_length,
                   main_w1, criterion>>
    /\ OnlyLabels

ComputeW1 ==                                      \* train.py 122
    /\ lpc = "122"
    /\ main_w1' = MeanFraction(W1Counts(y_train))
    /\ lpc' = "158"
    /\ UNCHANGED <<y_train, y_val, y_train_raw, y_val_raw, tIoU, seq_length,
                   main_w0, criterion>>
    /\ OnlyLabels

\* criterion = WeightedCrossEntropy(w0, w1)   (train.py 158-159)
BuildCriterion ==
    /\ lpc = "158"
    /\ criterion' = <<main_w0, main_w1>>
    /\ lpc' = "160"
    /\ UNCHANGED <<y_train, y_val, y_train_raw, y_val_raw, tIoU, seq_length,
                   main_w0, main_w1>>
    /\ OnlyLabels

(***************************************************************************)
(* main(): checkpoint loading and the training loop (train.py 160-237)     *)
(***************************************************************************)
Fresh == <<"fresh">>                      \* what model.init_hidden() returns
Checkpoints ==
    {[epoch |-> e, state_dict |-> [base |-> b, steps |-> 0],
      optimizer |-> [base |-> b, steps |-> 0]] :
        e \in {0, CheckpointEvery}, b \in 1..MaxPretrained}

\* the batches one pass of iterate_minibatches(X_train, y_train, args.batch_size)
\* yields, by their start_idx (train.py 188, 206)
PassBatches == StartIndices(n_train, batch_size)

\* model(X_t): the hidden state the forward pass on a batch leaves in model.hidden
ForwardHidden(h, pass) == <<"after", i, pass, batch_no>>

TrainIdle ==
    /\ tpc = "idle" /\ n_train = 0 /\ batch_size = 1 /\ num_epochs = 0
    /\ checkpoint_arg = FALSE /\ ckpt_file = None /\ start_epoch = None
    /\ i = 0 /\ batch_no = 0 /\ train_batches = 0 /\ val_batches = 0
    /\ state_dict = FreshParams /\ opt_state = FreshParams /\ training = TRUE
    /\ grad = "none" /\ hidden = <<"constructed">> /\ last_op = "none"
    /\ dir_exists = FALSE /\ saved = {} /\ epochs_run = <<>>

\* model, criterion and optimizer are built (train.py 154-160)
TrainStart ==
    /\ tpc = "163"
    /\ n_train \in 0..MaxTrain
    /\ batch_size \in 1..MaxB
    /\ num_epochs \in 0..MaxEpochs
    /\ checkpoint_arg \in BOOLEAN
    /\ ckpt_file \in {None} \cup {Some(c) : c \in Checkpoints}
    /\ start_epoch = None
    /\ i = 0 /\ batch_no = 0 /\ train_batches = 0 /\ val_batches = 0
    /\ state_dict = FreshParams /\ opt_state = FreshParams /\ training = TRUE
    /\ grad = "none" /\ hidden = <<"constructed">> /\ last_op = "none"
    /\ dir_exists \in BOOLEAN /\ saved = {} /\ epochs_run = <<>>

\* optionally resume from a checkpoint (train.py 163-177)
LoadCheckpoint ==
    /\ tpc = "163"
    /\ IF checkpoint_arg /\ ckpt_file # None
       THEN /\ start_epoch' = Some(The(ckpt_file).epoch)
            /\ state_dict' = The(ckpt_file).state_dict
            /\ opt_state' = The(ckpt_file).optimizer
       ELSE UNCHANGED <<start_epoch, state_dict, opt_state>>
    /\ tpc' = "183"
    /\ UNCHANGED <<n_train, batch_size, num_epochs, checkpoint_arg, ckpt_file, i,
                   batch_no, train_batches, val_batches, training, grad, hidden,
                   last_op, dir_exists, saved, epochs_run>>
    /\ OnlyTrain

\* for i in range(args.num_epochs): the first epoch begins, or there is none
\* (train.py 183-188, 237)
LoopEnter ==
    /\ tpc = "183"
    /\ IF 0 < num_epochs
       THEN /\ i' = 0
            /\ train_batches' = 0
            /\ training' = TRUE
            /\ batch_no' = 0
            /\ tpc' = "188"
       ELSE /\ tpc' = "done"
            /\ UNCHANGED <<i, train_batches, training, batch_no>>
    /\ UNCHANGED <<n_train, batch_size, num_epochs, checkpoint_arg, ckpt_file,
                   start_epoch, val_batches, state_dict, opt_state, grad, hidden,
                   last_op, dir_exists, saved, epochs_run>>
    /\ OnlyTrain

\* the training generator yields its next batch (train.py 188)
TrainNextBatch ==
    /\ tpc = "188"
    /\ batch_no < Len(PassBatches)
    /\ batch_no' = batch_no + 1
    /\ tpc' = "190"
    /\ UNCHANGED <<n_train, batch_size, num_epochs, checkpoint_arg, ckpt_file,
                   start_epoch, i, train_batches, val_batches, state_dict, opt_state,
                   training, grad, hidden, last_op, dir_exists, saved, epochs_run>>
    /\ OnlyTrain

TrainZeroGrad ==                                  \* train.py 190
    /\ tpc = "190"
    /\ grad' = "zero"
    /\ last_op' = "zero_grad"
    /\ tpc' = "191"
    /\ UNCHANGED <<n_train, batch_size, num_epochs, checkpoint_arg, ckpt_file,
                   start_epoch, i, batch_no, train_batches, val_batches, state_dict,
                   opt_state, training, hidden, dir_exists, saved, epochs_run>>
    /\ OnlyTrain

TrainInitHidden ==                                \* train.py 191
    /\ tpc = "191"
    /\ hidden' = Fresh
    /\ last_op' = "init_hidden"
    /\ tpc' = "196"
    /\ UNCHANGED <<n_train, batch_size, num_epochs, checkpoint_arg, ckpt_file,
                   start_epoch, i, batch_no, train_batches, val_batches, state_dict,
                   opt_state, training, grad, dir_exists, saved, epochs_run>>
    /\ OnlyTrain

TrainForward ==                                   \* train.py 193-196
    /\ tpc = "196"
    /\ hidden' = ForwardHidden(hidden, "train")
    /\ last_op' = "forward"
    /\ tpc' = "197"
    /\ UNCHANGED <<n_train, batch_size, num_epochs, checkpoint_arg, ckpt_file,
                   start_epoch, i, batch_no, train_batches, val_batches, state_dict,
                   opt_state, training, grad, dir_exists, saved, epochs_run>>
    /\ OnlyTrain

\* loss, backward, one optimizer step, the running sums (train.py 197-201)
TrainUpdate ==
    /\ tpc = "197"
    /\ grad' = "computed"
    /\ state_dict' = Updated(state_dict)
    /\ opt_state' = Updated(opt_state)
    /\ last_op' = "step"
    /\ train_batches' = train_batches + 1
    /\ tpc' = "188"
    /\ UNCHANGED <<n_train, batch_size, num_epochs, checkpoint_arg, ckpt_file,
                   start_epoch, i, batch_no, val_batches, training, hidden,
                   dir_exists, saved, epochs_run>>
    /\ OnlyTrain

\* the training generator is exhausted; the evaluation pass begins (train.py 203-206)
TrainPassEnd ==
    /\ tpc = "188"
    /\ batch_no >= Len(PassBatches)
    /\ val_batches' = 0
    /\ training' = FALSE
    /\ batch_no' = 0
    /\ tpc' = "206"
    /\ UNCHANGED <<n_train, batch_size, num_epochs, checkpoint_arg, ckpt_file,
                   start_epoch, i, train_batches, state_dict, opt_state, grad,
                   hidden, last_op, dir_exists, saved, epochs_run>>
    /\ OnlyTrain

\* the evaluation generator yields its next batch (train.py 206)
EvalNextBatch ==
    /\ tpc = "206"
    /\ batch_no < Len(PassBatches)
    /\ batch_no' = batch_no + 1
    /\ tpc' = "208"
    /\ UNCHANGED <<n_train, batch_size, num_epochs, checkpoint_arg, ckpt_file,
                   start_epoch, i, train_batches, val_batches, state_dict, opt_state,
                   training, grad, hidden, last_op, dir_exists, saved, epochs_run>>
    /\ OnlyTrain

\* the evaluation pass without its reset
EvalInitHiddenSkipped ==
    /\ tpc = "208"
    /\ tpc' = "213"
    /\ UNCHANGED <<n_train, batch_size, num_epochs, checkpoint_arg, ckpt_file,
                   start_epoch, i, batch_no, train_batches, val_batches, state_dict,
                   opt_state, training, grad, hidden, last_op, dir_exists, saved,
                   epochs_run>>
    /\ OnlyTrain

EvalInitHidden ==                                 \* train.py 208
    /\ tpc = "208"
    /\ hidden' = Fresh
    /\ last_op' = "init_hidden"
    /\ tpc' = "213"
    /\ UNCHANGED <<n_train, batch_size, num_epochs, checkpoint_arg, ckpt_file,
                   start_epoch, i, batch_no, train_batches, val_batches, state_dict,
                   opt_state, training, grad, dir_exists, saved, epochs_run>>
    /\ OnlyTrain

EvalForward ==                                    \* train.py 210-213
    /\ tpc = "213"
    /\ hidden' = ForwardHidden(hidden, "eval")
    /\ last_op' = "forward"
    /\ tpc' = "214"
    /\ UNCHANGED <<n_train, batch_size, num_epochs, checkpoint_arg, ckpt_file,
                   start_epoch, i, batch_no, train_batches, val_batches, state_dict,
                   opt_state, training, grad, dir_exists, saved, epochs_run>>
    /\ OnlyTrain

EvalLoss ==                                       \* train.py 214-216
    /\ tpc = "214"
    /\ val_batches' = val_batches + 1
    /\ tpc' = "206"
    /\ UNCHANGED <<n_train, batch_size, num_epochs, checkpoint_arg, ckpt_file,
                   start_epoch, i, batch_no, train_batches, state_dict, opt_state,
                   training, grad, hidden, last_op, dir_exists, saved, epochs_run>>
    /\ OnlyTrain

\* the evaluation generator is exhausted; the losses are printed, each a sum
\* divided by its number of batches (train.py 218-220)
Report ==
    /\ tpc = "206"
    /\ batch_no >= Len(PassBatches)
    /\ IF train_batches = 0 \/ val_batches = 0
       THEN /\ tpc' = "ZeroDivisionError"
            /\ UNCHANGED epochs_run
       ELSE /\ tpc' = "223"
            /\ epochs_run' = Append(epochs_run, i)
    /\ UNCHANGED <<n_train, batch_size, num_epochs, checkpoint_arg, ckpt_file,
                   start_epoch, i, batch_no, train_batches, val_batches, state_dict,
                   opt_state, training, grad, hidden, last_op, dir_exists, saved>>
    /\ OnlyTrain

\* every 10th epoch the directory is made and torch.save is to be called with
\* the path save_dir + '/epoch_' + str(i) + '.pth.tar'; save_dir is a name bound
\* nowhere, so evaluating the argument raises NameError. Otherwise, and after
\* it, the next epoch begins or the loop ends (train.py 223-237, 183-188)
EndOfEpoch ==
    /\ tpc = "223"
    /\ IF i % CheckpointEvery = 0
       THEN /\ dir_exists' = TRUE
            /\ tpc' = "NameError"
            /\ UNCHANGED <<i, train_batches, training, batch_no, saved>>
       ELSE /\ UNCHANGED <<dir_exists, saved>>
            /\ IF i + 1 < num_epochs
               THEN /\ i' = i + 1
                    /\ train_batches' = 0
                    /\ training' = TRUE
                    /\ batch_no' = 0
                    /\ tpc' = "188"
               ELSE /\ tpc' = "done"
                    /\ UNCHANGED <<i, train_batches, training, batch_no>>
    /\ UNCHANGED <<n_train, batch_size, num_epochs, checkpoint_arg, ckpt_file,
                   start_epoch, val_batches, state_dict, opt_state, grad, hidden,
                   last_op, epochs_run>>
    /\ OnlyTrain

(***************************************************************************)
(* Specifications                                                          *)
(***************************************************************************)
EncNext ==
    \/ Construct
    \/ InitializePretrained
    \/ Compile
    \/ ForwardEval
    \/ SaveModelParams
    \/ LoadModelParams

EncInit == EncIdle /\ BatchIdle /\ LabelIdle /\ TrainIdle

SpecEncoder == EncInit /\ [][EncNext]_vars

BatchInit == BatchStart /\ EncIdle /\ LabelIdle /\ TrainIdle
BatchNext == GenAssertFails \/ GenBegin \/ GenYield \/ GenFinish

SpecBatch == BatchInit /\ [][BatchNext]_vars

BinarizeInit == LabelsLoaded /\ BatchIdle /\ EncIdle /\ TrainIdle
BinarizeNext == TrainSetOnes \/ TrainSetZeros \/ ValSetOnes \/ ValSetZeros

SpecBinarize == BinarizeInit /\ [][BinarizeNext]_vars

WeightsInit == WeightsStart /\ BatchIdle /\ EncIdle /\ TrainIdle
WeightsNext == ComputeW0 \/ ComputeW1 \/ BuildCriterion

SpecWeights == WeightsInit /\ [][WeightsNext]_vars

TrainInit == TrainStart /\ BatchIdle /\ EncIdle /\ LabelIdle
TrainNext ==
    \/ LoadCheckpoint
    \/ LoopEnter
    \/ TrainNextBatch
    \/ TrainZeroGrad
    \/ TrainInitHidden
    \/ TrainForward
    \/ TrainUpdate
    \/ TrainPassEnd
    \/ EvalNextBatch
    \/ EvalInitHidden
    \/ EvalForward
    \/ EvalLoss
    \/ Report
    \/ EndOfEpoch

SpecTrain == TrainInit /\ [][TrainNext]_vars

(***************************************************************************)
(* C1                                                                      *)
(***************************************************************************)
\* C1: construction succeeds for every num_proposals > 0 (the dropout being
\* valid) and fails with ValueError for every num_proposals <= 0, 0 included.
C1_ConstructionChecksProposals ==
    epc # "new" =>
        /\ (num_proposals > 0 /\ dropout >= 0 /\ dropout <= One) => epc = "ok"
        /\ num_proposals <= 0 => epc = "ValueError"

(***************************************************************************)
(* C7                                                                      *)
(***************************************************************************)
\* C7: a forward_eval call on an encoder whose test function is not compiled,
\* or with an input whose rank is not 3 or whose last dimension is not
\* input_size, raises ValueError, executes no compiled function and leaves the
\* parameters as they were.
C7_ForwardEvalPrecondition ==
    [][(last'.op = "forward_eval"
          /\ (~Callable(test_fn) \/ last'.ndim # 3 \/ last'.lastdim # input_size))
        => /\ last'.outcome = "ValueError"
           /\ net_params' = net_params
           /\ fn_runs' = fn_runs]_vars

\* forward_eval has just raised on a compiled training-mode encoder that had
\* already taken a training step, for an input of rank 3 and a wrong last dimension
C7_Witness ==
    /\ last.op = "forward_eval"
    /\ last.outcome = "ValueError"
    /\ Callable(test_fn)
    /\ last.ndim = 3
    /\ last.lastdim # input_size
    /\ net_params.steps > 0

(***************************************************************************)
(* C8                                                                      *)
(***************************************************************************)
\* C8: the compiled training loss is the mean of a per-element term in which
\* log(prediction) is weighted by w1*y and log(1 - prediction) by w0*(1 - y).
C8_WeightedLoss ==
    Callable(train_fn) =>
        LET l == The(train_fn).loss IN
        /\ l.reduce = "mean"
        /\ \A y \in {0, 1} :
              /\ l.logp[y] = The(w1) * y
              /\ l.log1mp[y] = The(w0) * (1 - y)

(***************************************************************************)
(* C9                                                                      *)
(***************************************************************************)
\* C9: with dropout p > 0, the compiled test function computes on the
\* deterministic network, never on the stochastic training-time output.
C9_EvalDeterministic ==
    (Callable(test_fn) /\ dropout > 0) => ~The(test_fn).stochastic

(***************************************************************************)
(* C5                                                                      *)
(***************************************************************************)
\* the label the claim gives the raw value v
Label(v) == IF v >= tIoU THEN One ELSE 0

\* C5 as stated: once both assignments have run on an array, every entry is 1
\* if its raw value was >= tau and 0 otherwise, for every raw value and every
\* threshold.
C5_AsStated ==
    /\ lpc \in {"146", "147", "binarized"} =>
          \A t \in DOMAIN y_train[1] : y_train[1][t][1] = Label(y_train_raw[1][t][1])
    /\ lpc = "binarized" =>
          \A t \in DOMAIN y_val[1] : y_val[1][t][1] = Label(y_val_raw[1][t][1])

\* C5 amended: for every raw value v and every threshold tau <= 1, once both
\* assignments have run the entry is 1 if v >= tau and 0 otherwise (v = tau
\* is positive); for a threshold tau > 1 every entry is 0.
C5_Binarization ==
    /\ lpc \in {"146", "147", "binarized"} =>
          \A t \in DOMAIN y_train[1] :
              y_train[1][t][1] =
                  IF tIoU <= One THEN Label(y_train_raw[1][t][1]) ELSE 0
    /\ lpc = "binarized" =>
          \A t \in DOMAIN y_val[1] :
              y_val[1][t][1] = IF tIoU <= One THEN Label(y_val_raw[1][t][1]) ELSE 0

\* the example of the specification: tau = 0.5 on [0.3, 0.5, 0.7] gave [0, 1, 1]
C5_Witness ==
    /\ lpc = "binarized"
    /\ tIoU = 5
    /\ y_train_raw = <<<< <<3>>, <<5>>, <<7>> >>>>
    /\ y_train = <<<< <<0>>, <<One>>, <<One>> >>>>

(***************************************************************************)
(* C2                                                                      *)
(***************************************************************************)
\* C2: a run of E epochs on at least B training samples raises nothing, and
\* when it has ended it has run the epochs 0..E-1 in order and has persisted,
\* in the per-method directory, the checkpoints of exactly the epochs i < E
\* with i mod 10 = 0.
C2_EpochsAndCheckpoints ==
    n_train >= batch_size =>
        /\ tpc \notin {"NameError", "ZeroDivisionError"}
        /\ tpc = "done" =>
              /\ epochs_run = [j \in 1..num_epochs |-> j - 1]
              /\ saved = {e \in 0..(num_epochs - 1) : e % CheckpointEvery = 0}
              /\ (saved # {} => dir_exists)

(***************************************************************************)
(* C6                                                                      *)
(***************************************************************************)
\* C6: a run that loaded the checkpoint saved at the end of epoch e starts its
\* loop with the parameters and the optimizer state of that checkpoint, and
\* with e as its epoch index: the loop runs no epoch before e.
C6_CheckpointRoundTrip ==
    start_epoch # None =>
        /\ tpc = "183" =>
              /\ state_dict = The(ckpt_file).state_dict
              /\ opt_state = The(ckpt_file).optimizer
              /\ The(start_epoch) = The(ckpt_file).epoch
        /\ tpc \in {"188", "190", "191", "196", "197"} => i >= The(ckpt_file).epoch

(***************************************************************************)
(* C10                                                                     *)
(***************************************************************************)
\* C10: every forward pass, of the training pass and of the evaluation pass,
\* starts from the fresh hidden state, and the call made on the model just
\* before it was the reset of the hidden state.
C10_ResetBeforeForward ==
    [][(tpc \in {"196", "213"} /\ tpc' # tpc)
        => (hidden = Fresh /\ last_op = "init_hidden" /\ last_op' = "forward")]_vars

\* the evaluation pass has run its second forward pass of the epoch
C10_Witness ==
    /\ tpc = "214"
    /\ batch_no = 2
    /\ ~training
    /\ hidden = <<"after", i, "eval", 2>>

(***************************************************************************)
(* C3                                                                      *)
(***************************************************************************)
\* the (sample, timestep) pairs of the training set labelled v at anchor k
Labelled(v, k) ==
    {<<n, t>> \in (DOMAIN y_train) \X (DOMAIN y_train[1]) : y_train[n][t][k] = v}
\* the timesteps of sample n labelled v at anchor k
LabelledIn(n, v, k) == {t \in DOMAIN y_train[n] : y_train[n][t][k] = v}
\* the rational r = <<num, den>> equals a / b
RatIs(r, a, b) == r[1] * b = a * r[2]

\* C3 as stated: w1 is the mean positive fraction and w0 the mean negative
\* fraction, per anchor, and (w0, w1) are passed to the loss.
C3_AsStated ==
    lpc = "160" =>
        LET N == Len(y_train)  T == Len(y_train[1]) IN
        /\ \A k \in DOMAIN y_train[1][1] :
              /\ RatIs(main_w1[k], Cardinality(Labelled(One, k)), N * T)
              /\ RatIs(main_w0[k], Cardinality(Labelled(0, k)), N * T)
        /\ criterion = <<main_w0, main_w1>>

\* C3 amended: per anchor, w0 is the mean over the samples of (timesteps
\* labelled 1) / seq_length and w1 the mean of (timesteps labelled 0) /
\* seq_length; so where seq_length is the number of timesteps T and every
\* sample has exactly p of T timesteps positive, w0 = p/T and w1 = (T-p)/T
\* (16 of 128: w0 = 0.125, w1 = 0.875); and (w0, w1) are passed to the loss.
C3_Weights ==
    lpc = "160" =>
        LET N == Len(y_train)  T == Len(y_train[1]) IN
        /\ \A k \in DOMAIN y_train[1][1] :
              /\ RatIs(main_w0[k], Cardinality(Labelled(One, k)), N * seq_length)
              /\ RatIs(main_w1[k], Cardinality(Labelled(0, k)), N * seq_length)
              /\ \A p \in 0..T :
                    (/\ seq_length = T
                     /\ \A n \in DOMAIN y_train :
                           Cardinality(LabelledIn(n, One, k)) = p)
                    => /\ RatIs(main_w0[k], p, T)
                       /\ RatIs(main_w1[k], T - p, T)
        /\ criterion = <<main_w0, main_w1>>

\* the weights were taken of two samples that each have exactly one of two
\* timesteps positive at anchor 1, and passed to the loss
C3_Witness ==
    /\ lpc = "160"
    /\ Len(y_train) = 2
    /\ seq_length = Len(y_train[1])
    /\ seq_length = 2
    /\ \A n \in DOMAIN y_train : Cardinality(LabelledIn(n, One, 1)) = 1
    /\ RatIs(main_w0[1], 1, 2)
    /\ criterion = <<main_w0, main_w1>>

(***************************************************************************)
(* C4                                                                      *)
(***************************************************************************)
\* the sample ids a batch carries on its input side
BatchIds(b) == {b.X[j].x : j \in 1..Len(b.X)}
YieldedIds == UNION {BatchIds(yielded[k]) : k \in 1..Len(yielded)}

\* C4: a finished pass over n samples with batch size B >= 1, shuffled or not,
\* has yielded exactly n div B batches; every batch holds exactly B inputs and
\* B targets, pair j of a batch being the input and the target of one sample;
\* no sample is in two batches; exactly n mod B samples are in no batch.
C4_Minibatches ==
    gpc = "done" =>
        LET n == Len(inputs) IN
        /\ Len(yielded) = n \div batchsize
        /\ \A k \in 1..Len(yielded) :
              /\ Len(yielded[k].X) = batchsize
              /\ Len(yielded[k].Y) = batchsize
              /\ \A j \in 1..batchsize : yielded[k].X[j].x = yielded[k].Y[j].y
              /\ Cardinality(BatchIds(yielded[k])) = batchsize
        /\ \A k, l \in 1..Len(yielded) :
              k # l => BatchIds(yielded[k]) \cap BatchIds(yielded[l]) = {}
        /\ n - Cardinality(YieldedIds) = n % batchsize

\* a shuffled pass that yielded a batch and dropped a remainder has finished
C4_Witness ==
    /\ gpc = "done"
    /\ shuffle
    /\ Len(yielded) >= 1
    /\ Len(inputs) % batchsize # 0
    /\ indices # Arange(Len(inputs))

====
